---- MODULE Spec2Model ----
(***************************************************************************)
(* Model of the command-execution and status-decoding layer of golemsp:    *)
(*   src/src/command.rs           YaCommand (executable location, builder)  *)
(*   src/src/command/yagna.rs     YagnaCommand, PaymentDriver, summaries    *)
(*   src/src/command/provider.rs  YaProviderCommand::get_config             *)
(***************************************************************************)
EXTENDS Integers, Sequences, FiniteSets, TLC

VARIABLES
    \* ---- the filesystem and YaCommand::new / cmd (command.rs)
    exe,          \* env::current_exe(): Ok(path) or Err
    links,        \* fs::read_link: path -> target path (symlinks only)
    companions,   \* directory -> set of program names existing directly in it
    plugins,      \* "nohome" | "absent" | "present": ~/.local/lib/yagna/plugins
    pcNew,        \* position inside YaCommand::new
    me,           \* local `me` of YaCommand::new
    iter,         \* iterations of `for _ in 0..5` done so far
    base_path,    \* YaCommand.base_path: Option<path>
    built,        \* the Commands built from the current YaCommand
    decisions,    \* base_path decided by each completed YaCommand::new
    \* ---- YagnaCommand::version_raw's decode of a zero-exit output (yagna.rs)
    text,         \* the child's stdout (a sequence of characters)
    vres,         \* what version_raw returned for it, or NotCalled
    \* ---- one typed operation at a time (yagna.rs, provider.rs)
    op,           \* the typed operation being executed, "none" when idle
    pc,           \* "idle" | "spawn" | "awaiting" | "returned"
    input,        \* payment_status's address, network and driver table
    cmd,          \* the tokio Command: program, args, how stderr is set up
    child,        \* the child process: state, exit code, what it wrote
    spawned,      \* children spawned by this execution
    result,       \* what the operation returned, or NotCalled
    lookup,       \* what a direct PaymentDriver::platform call returned
    \* ---- the derived counters and summaries (yagna.rs)
    overflow_checks, \* the build's overflow-checks setting (on in debug builds)
    astatus,      \* an ActivityStatus: the maps last1h and total
    aret,         \* the last ActivityStatus call and what it returned
    notes,        \* a StatusNotes: requested, accepted, confirmed
    sret          \* the last PaymentSummary call and what it returned

locVars == <<exe, links, companions, plugins, pcNew, me, iter, base_path, built, decisions>>

verVars == <<text, vres>>

runVars == <<op, pc, input, cmd, child, spawned, result, lookup>>

numVars == <<overflow_checks, astatus, aret, notes, sret>>

notLocVars == <<verVars, runVars, numVars>>
notVerVars == <<locVars, runVars, numVars>>
notRunVars == <<locVars, verVars, numVars>>
notNumVars == <<locVars, verVars, runVars>>

vars == <<locVars, verVars, runVars, numVars>>

\* Option<T>: the empty set is None, {x} is Some(x)
None == {}
Some(x) == {x}
Unwrap(o) == CHOOSE x \in o : TRUE

NotCalled == [state |-> "not called"]

\* anyhow::Error, by what its message holds: the Debug rendering of the
\* Command, the two captured streams, the undecoded text, a network name, or
\* a message that comes from elsewhere
ErrorOf(kind) ==
    [kind |-> kind, cmdline |-> None, stdout |-> None, stderr |-> None,
     text |-> None, network |-> None, msg |-> None]
NoError == ErrorOf("none")
NoValue == [ty |-> "none"]

\* anyhow::Result<T>
OkOf(value) == [ok |-> TRUE, value |-> value, err |-> NoError]
ErrOf(err) == [ok |-> FALSE, value |-> NoValue, err |-> err]

\* Result<Path, io::Error>
OkPath(p) == [ok |-> TRUE, path |-> p]
ErrPath == [ok |-> FALSE, path |-> <<>>]

(***************************************************************************)
(* Paths are sequences of components; <<>> is the root "/".                 *)
(***************************************************************************)
Root == <<>>

\* Path::parent: None for the root, else the path without its last component
Parent(p) == IF Len(p) = 0 THEN None ELSE Some(SubSeq(p, 1, Len(p) - 1))

\* Path::join with a single relative component
Join(dir, name) == Append(dir, name)

\* an absolute path (qualified by a directory) or a bare, PATH-resolved name
AbsPath(p) == [rel |-> FALSE, comps |-> p]
BarePath(name) == [rel |-> TRUE, comps |-> <<name>>]

\* the range 0..=5 for 0..5: one hop too many
MaxHops_Inclusive == 5 + 1

\* for _ in 0..5
MaxHops == 5

(***************************************************************************)
(* The filesystems YaCommand::new is run on.  From the running binary only  *)
(* one chain of links can be followed, so a filesystem is a chain of n      *)
(* symlinks whose last node is a regular file, a link to "/", or a link     *)
(* back to an earlier node (a cycle).                                       *)
(***************************************************************************)
MaxChain == 6
MaxNew == 2

DirNames == <<"bin", "opt">>
ExeNames == <<"golemsp", "l1", "l2", "l3", "l4", "l5", "l6", "l7", "l8", "l9">>
Programs == {"yagna", "ya-provider"}

Node(k) == <<DirNames[(k % Len(DirNames)) + 1], ExeNames[k + 1]>>
Dirs == { <<DirNames[d]>> : d \in 1..Len(DirNames) }

ChainLinks(n) == [ p \in { Node(k) : k \in 0..(n - 1) } |->
                     Node((CHOOSE k \in 0..(n - 1) : Node(k) = p) + 1) ]

\* the link table of a chain of n links whose last node links to `target`
LinkTable(n, target) ==
    [ p \in DOMAIN ChainLinks(n) \cup {Node(n)} |->
        IF p # Node(n) THEN ChainLinks(n)[p] ELSE target ]

FileSystems == { ChainLinks(n) : n \in 0..MaxChain }
          \cup { LinkTable(n, Root) : n \in 0..MaxChain }
          \cup UNION { { LinkTable(n, Node(k)) : k \in 0..n } : n \in 0..MaxChain }

\* fs::read_link(p): the target when p is a symlink, else an error
ReadLink(p) == IF p \in DOMAIN links THEN OkPath(links[p]) ELSE ErrPath

\* Path::exists of dir.join(name)
Exists(dir, name) == dir \in DOMAIN companions /\ name \in companions[dir]

\* the parts of the state an execution of YaCommand does not touch
VerIdle == text = <<>> /\ vres = NotCalled

NoCommand == [program |-> BarePath("none"), env |-> {}, args |-> <<>>, stderr |-> "default"]
NoChild == [state |-> "none", code |-> 0, out |-> <<>>, errout |-> <<>>]
NoInput == [address |-> "none", network |-> "none", table |-> "none"]

RunIdle ==
    /\ op = "none" /\ pc = "idle" /\ input = NoInput /\ cmd = NoCommand
    /\ child = NoChild /\ spawned = 0 /\ result = NotCalled /\ lookup = NotCalled

EmptyMap == [k \in {} |-> 0]
StatValue(amount, count) == [total_amount |-> amount, agreements_count |-> count]
NoNotes == [requested |-> StatValue(0, 0), accepted |-> StatValue(0, 0),
            confirmed |-> StatValue(0, 0)]

NumIdle ==
    /\ overflow_checks = FALSE
    /\ astatus = [last1h |-> EmptyMap, total |-> EmptyMap]
    /\ aret = NotCalled
    /\ notes = NoNotes
    /\ sret = NotCalled

LocIdle ==
    /\ exe = ErrPath /\ links = <<>> /\ companions = <<>> /\ plugins = "nohome"
    /\ pcNew = "idle" /\ me = Root /\ iter = 0 /\ base_path = None
    /\ built = {} /\ decisions = <<>>

InitLocate ==
    /\ exe \in {OkPath(Node(0)), ErrPath}
    /\ links \in FileSystems
    /\ companions \in [Dirs -> SUBSET Programs]
    /\ plugins \in {"nohome", "absent", "present"}
    /\ pcNew = "call"
    /\ me = Root
    /\ iter = 0
    /\ base_path = None
    /\ built = {}
    /\ decisions = <<>>
    /\ VerIdle
    /\ RunIdle
    /\ NumIdle

\* let mut me = env::current_exe()?;
NewStart ==
    /\ pcNew = "call"
    /\ IF ~exe.ok
       THEN /\ pcNew' = "failed"
            /\ decisions' = Append(decisions, [ok |-> FALSE, base |-> None])
            /\ UNCHANGED <<me, iter>>
       ELSE /\ pcNew' = "loop"
            /\ me' = exe.path
            /\ iter' = 0
            /\ UNCHANGED decisions
    /\ UNCHANGED <<exe, links, companions, plugins, base_path, built>>
    /\ UNCHANGED notLocVars

\* one iteration of the loop that took the link: me = base
NewHop ==
    /\ pcNew = "loop"
    /\ iter < MaxHops
    /\ ReadLink(me).ok
    /\ me' = ReadLink(me).path
    /\ iter' = iter + 1
    /\ UNCHANGED <<exe, links, companions, plugins, pcNew, base_path, built, decisions>>
    /\ UNCHANGED notLocVars

\* the loop ends: the range is exhausted, or read_link failed (break)
NewBreak ==
    /\ pcNew = "loop"
    /\ (iter >= MaxHops \/ ~ReadLink(me).ok)
    /\ pcNew' = "resolved"
    /\ UNCHANGED <<exe, links, companions, plugins, me, iter, base_path, built, decisions>>
    /\ UNCHANGED notLocVars

\* the test with && for ||: a base is kept when only one companion is there
CompanionsMissing_Both(dir) == ~Exists(dir, "yagna") /\ ~Exists(dir, "ya-provider")

\* if !base_path.join("yagna").exists() || !base_path.join("ya-provider").exists()
CompanionsMissing(dir) == ~Exists(dir, "yagna") \/ ~Exists(dir, "ya-provider")

\* me.parent().ok_or_else(..)?, then the companions test
NewFinish ==
    /\ pcNew = "resolved"
    /\ IF Parent(me) = None
       THEN /\ pcNew' = "failed"
            /\ decisions' = Append(decisions, [ok |-> FALSE, base |-> None])
            /\ UNCHANGED base_path
       ELSE /\ pcNew' = "done"
            /\ base_path' = IF CompanionsMissing(Unwrap(Parent(me))) THEN None
                            ELSE Some(Unwrap(Parent(me)))
            /\ decisions' = Append(decisions, [ok |-> TRUE, base |-> base_path'])
    /\ UNCHANGED <<exe, links, companions, plugins, me, iter, built>>
    /\ UNCHANGED notLocVars

\* YaCommand::cmd: the program of the Command it builds
CmdProgram(program) ==
    IF base_path # None THEN AbsPath(Join(Unwrap(base_path), program)) ELSE BarePath(program)

\* YaCommand::yagna
Yagna ==
    /\ pcNew = "done"
    /\ built' = built \cup {[program |-> CmdProgram("yagna"), env |-> {}]}
    /\ UNCHANGED <<exe, links, companions, plugins, pcNew, me, iter, base_path, decisions>>
    /\ UNCHANGED notLocVars

\* YaCommand::ya_provider
YaProvider ==
    /\ pcNew = "done"
    /\ built' = built \cup {[program |-> CmdProgram("ya-provider"),
                              env |-> IF plugins = "present" THEN {"EXE_UNIT_PATH"} ELSE {}]}
    /\ UNCHANGED <<exe, links, companions, plugins, pcNew, me, iter, base_path, decisions>>
    /\ UNCHANGED notLocVars

\* a caller of YaCommand::cmd with another program name
CmdOther ==
    /\ pcNew = "done"
    /\ built' = built \cup {[program |-> CmdProgram("golemsp"), env |-> {}]}
    /\ UNCHANGED <<exe, links, companions, plugins, pcNew, me, iter, base_path, decisions>>
    /\ UNCHANGED notLocVars

\* YaCommand::new is called again on the unchanged filesystem
NewAgain ==
    /\ pcNew \in {"done", "failed"}
    /\ Len(decisions) < MaxNew
    /\ pcNew' = "call"
    /\ me' = Root
    /\ iter' = 0
    /\ base_path' = None
    /\ built' = {}
    /\ UNCHANGED <<exe, links, companions, plugins, decisions>>
    /\ UNCHANGED notLocVars

NewStep == NewStart \/ NewHop \/ NewBreak \/ NewFinish

NextLocate == NewStep \/ Yagna \/ YaProvider \/ CmdOther \/ NewAgain

SpecLocate == InitLocate /\ [][NextLocate]_vars

\* the body of YaCommand::new is straight-line code: once called it runs on
LiveLocate == InitLocate /\ [][NextLocate]_vars /\ WF_vars(NewStep)

(***************************************************************************)
(* Executable location                                                      *)
(***************************************************************************)
\* the path k links after p, read off the link table
RECURSIVE HopN(_, _)
HopN(p, k) == IF k = 0 THEN p ELSE HopN(links[p], k - 1)

\* k links can be followed from p
RECURSIVE CanHop(_, _)
CanHop(p, k) == k = 0 \/ (p \in DOMAIN links /\ CanHop(links[p], k - 1))

BuiltQualified == \A c \in built :
    /\ ~c.program.rel
    /\ base_path # None
    /\ \E prog \in Programs \cup {"golemsp"} :
         c.program.comps = Unwrap(base_path) \o <<prog>>
BuiltBare == \A c \in built : c.program.rel /\ Len(c.program.comps) = 1

\* C4: YaCommand::new keeps a base directory exactly when both "yagna" and
\* "ya-provider" exist directly under the candidate directory (the parent of
\* the resolved path); the programs built from one YaCommand are all
\* base-qualified or all bare names; and every call of new on the unchanged
\* filesystem takes the same decision.
C4_BaseIffBothCompanions ==
    /\ pcNew = "done" =>
         LET cand == SubSeq(me, 1, Len(me) - 1) IN
         /\ (base_path # None) <=>
               ("yagna" \in companions[cand] /\ "ya-provider" \in companions[cand])
         /\ base_path # None => base_path = {cand}
    /\ (BuiltQualified \/ BuiltBare)
    /\ \A a, b \in DOMAIN decisions : decisions[a] = decisions[b]

\* C4 witness: the second YaCommand on the same filesystem found both
\* companions and built all three programs from its base directory
C4_Witness ==
    /\ pcNew = "done" /\ Len(decisions) = 2
    /\ base_path # None
    /\ Cardinality(built) = 3

\* the base is dropped because exactly one companion is missing
C4_WitnessDegraded ==
    /\ pcNew = "done" /\ base_path = None
    /\ companions[SubSeq(me, 1, Len(me) - 1)] = {"yagna"}
    /\ Cardinality(built) = 3

C5_HopsBounded == iter <= 5

C5_ResolvedPath ==
    /\ pcNew \in {"resolved", "done"} =>
         /\ CanHop(exe.path, iter)
         /\ me = HopN(exe.path, iter)
         /\ (iter = 5 \/ me \notin DOMAIN links)
    /\ pcNew = "done" /\ base_path # None =>
         base_path = {SubSeq(me, 1, Len(me) - 1)}
    /\ pcNew = "failed" /\ exe.ok => me = Root

\* C5: executable location takes at most 5 symlink hops on every link graph
\* (cyclic ones and chains longer than 5 included), stops at the first path
\* that is not a symlink, takes the parent of the path it stopped at as the
\* candidate base, and always terminates.
C5_BoundedResolution ==
    /\ []C5_HopsBounded
    /\ []C5_ResolvedPath
    /\ (pcNew = "loop") ~> (pcNew \in {"done", "failed"})

\* C5 witness: resolution stopped after 5 hops on a path that is still a symlink
C5_Witness == pcNew = "done" /\ iter = 5 /\ me \in DOMAIN links

(***************************************************************************)
(* YagnaCommand::version_raw: the decode of the version banner              *)
(*   yagna ([0-9.]+) \(([a-z0-9]+) ([-0-9]+)( build #(\d+))?              *)
(* The regex crate searches unanchored and returns the leftmost match; its  *)
(* repetitions are greedy.                                                  *)
(***************************************************************************)
Digit == {"0", "1", "2", "3", "4", "5", "6", "7", "8", "9"}
Lower == {"a", "b", "c", "d", "e", "f", "g", "h", "i", "j", "k", "l", "m",
          "n", "o", "p", "q", "r", "s", "t", "u", "v", "w", "x", "y", "z"}

\* [0-9.]
VersionClass == Digit \cup {"."}
\* [a-f0-9] for [a-z0-9]: a pattern that takes hexadecimal hashes only
ShaClass_Hex == Digit \cup {"a", "b", "c", "d", "e", "f"}
\* [a-z0-9]
ShaClass == Lower \cup Digit
\* [-0-9]
DateClass == Digit \cup {"-"}

\* the literals of the pattern
LitYagna == <<"y", "a", "g", "n", "a", " ">>
LitOpen == <<" ", "(">>
LitSpace == <<" ">>
LitBuild == <<" ", "b", "u", "i", "l", "d", " ", "#">>

\* the literal `lit` stands in `t` at position i
LitAt(t, i, lit) ==
    /\ i + Len(lit) - 1 <= Len(t)
    /\ SubSeq(t, i, i + Len(lit) - 1) = lit

Least(S) == CHOOSE x \in S : \A y \in S : x <= y

\* the one element of a singleton
Only(S) == CHOOSE x \in S : TRUE

\* a greedy class+ from position i: the last position of the longest run of
\* class characters starting at i (i - 1 when there is none)
RunEnd(t, i, class) ==
    LET stops == { j \in i..Len(t) : t[j] \notin class }
    IN IF stops = {} THEN Len(t) ELSE Least(stops) - 1

NoMatch == [ok |-> FALSE, version |-> <<>>, sha |-> <<>>, date |-> <<>>, build |-> <<>>]

\* the optional group ( build #(\d+))? tried at position i: group 5 or ""
BuildGroup(t, i) ==
    Only({ IF LitAt(t, i, LitBuild) /\ b1 >= i + Len(LitBuild)
           THEN SubSeq(t, i + Len(LitBuild), b1) ELSE <<>> :
           b1 \in {RunEnd(t, i + Len(LitBuild), Digit)} })

\* the groups of a match that starts at s and whose version, sha and date end
\* at v1, h1 and d1
Groups(t, s, v1, h1, d1) ==
    [ok |-> TRUE,
     version |-> SubSeq(t, s + Len(LitYagna), v1),
     sha |-> SubSeq(t, v1 + 1 + Len(LitOpen), h1),
     date |-> SubSeq(t, h1 + 1 + Len(LitSpace), d1),
     build |-> BuildGroup(t, d1 + 1)]

\* ... ([-0-9]+)( build #(\d+))? from position d0
MatchDate(t, s, v1, h1, d0) ==
    Only({ IF d1 >= d0 THEN Groups(t, s, v1, h1, d1) ELSE NoMatch :
           d1 \in {RunEnd(t, d0, DateClass)} })

\* ... ([a-z0-9]+) and the space after it, from position h0
MatchSha(t, s, v1, h0) ==
    Only({ IF h1 >= h0 /\ LitAt(t, h1 + 1, LitSpace)
           THEN MatchDate(t, s, v1, h1, h1 + 1 + Len(LitSpace)) ELSE NoMatch :
           h1 \in {RunEnd(t, h0, ShaClass)} })

\* ... ([0-9.]+) and the " (" after it, from position v0
MatchVersion(t, s, v0) ==
    Only({ IF v1 >= v0 /\ LitAt(t, v1 + 1, LitOpen)
           THEN MatchSha(t, s, v1, v1 + 1 + Len(LitOpen)) ELSE NoMatch :
           v1 \in {RunEnd(t, v0, VersionClass)} })

\* the pattern tried with the match starting at position s
MatchAt(t, s) ==
    IF LitAt(t, s, LitYagna) THEN MatchVersion(t, s, s + Len(LitYagna)) ELSE NoMatch

\* re.captures(text): the match at the leftmost position that has one
Captures(t) ==
    LET starts == { s \in 1..Len(t) : MatchAt(t, s).ok }
    IN IF starts = {} THEN NoMatch ELSE MatchAt(t, Least(starts))

\* the if let Some(cap) .. else bail!(..) of version_raw, on the output of run()
VersionRawDecode(output) ==
    LET cap == Captures(output) IN
    IF cap.ok
    THEN OkOf([ty |-> "VersionRaw", version |-> cap.version, sha |-> cap.sha,
               date |-> cap.date, build |-> cap.build])
    ELSE ErrOf([ErrorOf("parse") EXCEPT !.text = Some(output)])

(***************************************************************************)
(* The outputs version_raw is run on: a banner put together from pieces,    *)
(* each piece well-formed or broken.                                        *)
(***************************************************************************)
PieceLead == {<<>>, <<"v", ":", " ">>, <<"y", "a", "g", "n", "a", " ", "x", " ">>}
PieceName == {<<"y", "a", "g", "n", "a", " ">>, <<"Y", "a", "g", "n", "a", " ">>, <<"y", "a", "g", "n", "a">>}
PieceVersion == {<<"0", ".", "9", ".", "1">>, <<"1">>, <<>>, <<"1", "a">>}
PieceOpen == {<<" ", "(">>, <<" ">>}
PieceSha == {<<"a", "b", "c", "1", "2", "3", "4">>, <<"x", "y", "z">>, <<"A", "B", "C">>, <<"0", "g">>}
PieceDate == {<<" ", "2", "0", "2", "2", "-", "0", "5", "-", "1", "0">>, <<" ", "-", "1">>, <<"2", "0", "2", "2">>, <<" ">>}
PieceBuild == {<<>>, <<" ", "b", "u", "i", "l", "d", " ", "#", "4", "2", ")">>, <<" ", "b", "u", "i", "l", "d", " ", "#", ")">>, <<")">>, <<" ", "b", "u", "i", "l", "d", " ", "#", "7", " ", "y", "a", "g", "n", "a", " ", "2", " ", "(", "b", " ", "3", " ", "b", "u", "i", "l", "d", " ", "#", "8", ")">>}

Banners == { l \o n \o v \o o \o h \o d \o b :
               l \in PieceLead, n \in PieceName, v \in PieceVersion, o \in PieceOpen,
               h \in PieceSha, d \in PieceDate, b \in PieceBuild }

InitVersion ==
    /\ text \in Banners
    /\ vres = NotCalled
    /\ LocIdle
    /\ RunIdle
    /\ NumIdle

\* version_raw returns for a child that exited with status 0 and wrote `text`
VersionRawReturn ==
    /\ vres = NotCalled
    /\ vres' = VersionRawDecode(text)
    /\ UNCHANGED text
    /\ UNCHANGED notVerVars

NextVersion == VersionRawReturn

SpecVersion == InitVersion /\ [][NextVersion]_vars

(***************************************************************************)
(* The banner pattern stated on its own: where a banner stands in a text    *)
(* and which pieces of the text its groups are.                             *)
(***************************************************************************)
IsRun(t, a, b, class) == a <= b /\ b <= Len(t) /\ \A i \in a..b : t[i] \in class

LowerAlnum == Lower \cup Digit
HexLower == Digit \cup {"a", "b", "c", "d", "e", "f"}

\* a banner whose sha is drawn from shaClass starts at s, with version, sha
\* and date ending at v1, h1 and d1
BannerAt(t, s, v1, h1, d1, shaClass) ==
    /\ LitAt(t, s, <<"y", "a", "g", "n", "a", " ">>)
    /\ IsRun(t, s + 6, v1, Digit \cup {"."})
    /\ LitAt(t, v1 + 1, <<" ", "(">>)
    /\ IsRun(t, v1 + 3, h1, shaClass)
    /\ LitAt(t, h1 + 1, <<" ">>)
    /\ IsRun(t, h1 + 2, d1, Digit \cup {"-"})
    /\ (d1 = Len(t) \/ t[d1 + 1] \notin Digit \cup {"-"})

BannerStartsAt(t, s, shaClass) ==
    /\ LitAt(t, s, <<"y", "a", "g", "n", "a", " ">>)
    /\ \E v1 \in (s + 6)..Len(t) :
         /\ LitAt(t, v1 + 1, <<" ", "(">>)
         /\ \E h1 \in (v1 + 3)..Len(t) :
              /\ LitAt(t, h1 + 1, <<" ">>)
              /\ \E d1 \in (h1 + 2)..Len(t) : BannerAt(t, s, v1, h1, d1, shaClass)

ContainsBanner(t, shaClass) == \E s \in 1..Len(t) : BannerStartsAt(t, s, shaClass)

\* the digits of a " build #N" clause standing right after position d1, or ""
BuildDigits(t, d1) ==
    IF /\ LitAt(t, d1 + 1, <<" ", "b", "u", "i", "l", "d", " ", "#">>)
       /\ d1 + 9 <= Len(t) /\ t[d1 + 9] \in Digit
    THEN LET e == CHOOSE e \in (d1 + 9)..Len(t) :
                    /\ IsRun(t, d1 + 9, e, Digit)
                    /\ (e = Len(t) \/ t[e + 1] \notin Digit)
         IN SubSeq(t, d1 + 9, e)
    ELSE <<>>

\* r is the successful VersionRaw of the leftmost banner of t
DecodesBanner(t, r, shaClass) ==
    /\ r.ok
    /\ \E s \in 1..Len(t) :
         /\ BannerStartsAt(t, s, shaClass)
         /\ \A s2 \in 1..(s - 1) : ~BannerStartsAt(t, s2, shaClass)
         /\ \E v1 \in (s + 6)..Len(t) :
              /\ LitAt(t, v1 + 1, <<" ", "(">>)
              /\ \E h1 \in (v1 + 3)..Len(t) :
                   /\ LitAt(t, h1 + 1, <<" ">>)
                   /\ \E d1 \in (h1 + 2)..Len(t) :
                        /\ BannerAt(t, s, v1, h1, d1, shaClass)
                        /\ r.value.version = SubSeq(t, s + 6, v1)
                        /\ r.value.sha = SubSeq(t, v1 + 3, h1)
                        /\ r.value.date = SubSeq(t, h1 + 2, d1)
                        /\ r.value.build = BuildDigits(t, d1)

\* r is the decode error that carries the text
DecodeFails(t, r) == ~r.ok /\ r.err.kind = "parse" /\ r.err.text = {t}

C6_WitnessNoBuild ==
    /\ text = <<"y", "a", "g", "n", "a", " ", "0", ".", "9", ".", "1", " ", "(", "a", "b", "c", "1", "2", "3", "4", " ", "2", "0", "2", "2", "-", "0", "5", "-", "1", "0", ")">>
    /\ vres # NotCalled /\ vres.ok /\ vres.value.build = <<>>

\* an output without a banner gives the decode error
C6_WitnessNoBanner ==
    /\ text = <<"Y", "a", "g", "n", "a", " ", "0", ".", "9", ".", "1", " ", "(", "a", "b", "c", "1", "2", "3", "4", " ", "2", "0", "2", "2", "-", "0", "5", "-", "1", "0", ")">>
    /\ vres # NotCalled /\ ~vres.ok

(***************************************************************************)
(* Domain tables: network name -> payment platform (yagna.rs)               *)
(***************************************************************************)
NetworkName == {"Mainnet", "Rinkeby", "Goerli", "Mumbai", "Polygon"}

\* NetworkName as a string (strum, lowercase): Into<&'static str> and Display
NetStr(n) ==
    CASE n = "Mainnet" -> "mainnet"
      [] n = "Rinkeby" -> "rinkeby"
      [] n = "Goerli" -> "goerli"
      [] n = "Mumbai" -> "mumbai"
      [] n = "Polygon" -> "polygon"

PaymentPlatform(platform, driver, token) ==
    [ty |-> "PaymentPlatform", platform |-> platform, driver |-> driver, token |-> token]

\* HashMap::insert
Insert(map, key, value) ==
    [k \in DOMAIN map \cup {key} |-> IF k = key THEN value ELSE map[k]]

ZKSYNC_DRIVER ==
    LET m1 == Insert(EmptyMap, NetStr("Mainnet"),
                     PaymentPlatform("zksync-mainnet-glm", "zksync", "GLM"))
    IN Insert(m1, NetStr("Rinkeby"),
              PaymentPlatform("zksync-rinkeby-tglm", "zksync", "tGLM"))

ERC20_DRIVER ==
    LET m1 == Insert(EmptyMap, NetStr("Mainnet"),
                     PaymentPlatform("erc20-mainnet-glm", "erc20", "GLM"))
        m2 == Insert(m1, NetStr("Rinkeby"),
                     PaymentPlatform("erc20-rinkeby-tglm", "erc20", "tGLM"))
        m3 == Insert(m2, NetStr("Goerli"),
                     PaymentPlatform("erc20-goerli-tglm", "erc20", "tGLM"))
        m4 == Insert(m3, NetStr("Mumbai"),
                     PaymentPlatform("erc20-mumbai-tglm", "erc20", "tGLM"))
    IN Insert(m4, NetStr("Polygon"),
              PaymentPlatform("erc20-polygon-glm", "erc20", "GLM"))

DriverTables == {"zksync", "erc20"}
DriverTable(name) == IF name = "zksync" THEN ZKSYNC_DRIVER ELSE ERC20_DRIVER

\* a lookup that falls back to the erc20 table when the network is not found
Platform_Fallback(table, network) ==
    LET net == NetStr(network) IN
    IF net \in DOMAIN table THEN OkOf(table[net])
    ELSE IF net \in DOMAIN ERC20_DRIVER THEN OkOf(ERC20_DRIVER[net])
    ELSE ErrOf([ErrorOf("lookup") EXCEPT !.network = Some(NetStr(network))])

\* PaymentDriver::platform
Platform(table, network) ==
    LET net == NetStr(network) IN
    IF net \in DOMAIN table THEN OkOf(table[net])
    ELSE ErrOf([ErrorOf("lookup") EXCEPT !.network = Some(NetStr(network))])

(***************************************************************************)
(* What a child may write, and serde_json::from_slice on it                 *)
(***************************************************************************)
OutEmpty == <<>>
OutGarbage == <<"o", "o", "p", "s">>
OutObject == <<"{", "}">>
OutIdOk == <<"{", "\"", "O", "k", "\"", ":", "{", "\"", "n", "o", "d", "e", "I", "d", "\"", ":", "\"", "0", "x", "0", "a", "\"", "}", "}">>
OutIdErr == <<"{", "\"", "E", "r", "r", "\"", ":", "\"", "n", "o", " ", "i", "d", "\"", "}">>
OutActivity == <<"{", "\"", "l", "a", "s", "t", "1", "h", "\"", ":", "{", "}", ",", "\"", "t", "o", "t", "a", "l", "\"", ":", "{", "}", "}">>
OutBanner == <<"y", "a", "g", "n", "a", " ", "0", ".", "9", ".", "1", " ", "(", "a", "b", "c", "1", "2", "3", "4", " ", "2", "0", "2", "2", "-", "0", "5", "-", "1", "0", " ", "b", "u", "i", "l", "d", " ", "#", "4", "2", ")">>
\* stands for a document of the shape a ya_core_model type asks for
OutModel == <<"{", "\"", "m", "o", "d", "e", "l", "\"", ":", "1", "}">>

Stdouts == {OutEmpty, OutGarbage, OutObject, OutIdOk, OutIdErr, OutActivity,
            OutBanner, OutModel}
Stderrs == {<<>>, <<"b", "o", "o", "m">>}
ExitCodes == {0, 1}

\* the samples that are one JSON object
JsonObjects == {OutObject, OutIdOk, OutIdErr, OutActivity, OutModel}

\* VersionInfo, StatusResult and InvoiceStats are declared in ya_core_model
ModelTypes == {"VersionInfo", "StatusResult", "InvoiceStats"}
ModelDecodes(ty, t) == ty \in ModelTypes /\ t = OutModel

\* serde_json::from_slice::<T>(t): the value, or serde_json's error (which
\* holds a category, a line and a column, not the text)
JsonDecode(ty, t) ==
    CASE ty = "ProviderConfig" /\ t \in JsonObjects ->
            \* every field is an Option and unknown fields are ignored
            OkOf([ty |-> "ProviderConfig", node_name |-> None, subnet |-> None,
                  account |-> None])
      [] ty = "ActivityStatus" /\ t = OutActivity ->
            OkOf([ty |-> "ActivityStatus", last1h |-> EmptyMap, total |-> EmptyMap,
                  last_activity_ts |-> None])
      [] ty = "Result<Id, String>" /\ t = OutIdOk ->
            OkOf([ty |-> "Ok", node_id |-> "0x0a"])
      [] ty = "Result<Id, String>" /\ t = OutIdErr ->
            OkOf([ty |-> "Err", msg |-> "no id"])
      [] ModelDecodes(ty, t) -> OkOf([ty |-> ty])
      [] OTHER -> ErrOf(ErrorOf("serde"))

(***************************************************************************)
(* The typed operations.  Each takes its YagnaCommand or YaProviderCommand  *)
(* by value (`mut self`): one command value executes one operation.         *)
(***************************************************************************)
YagnaOps == {"default_id", "version", "version_raw", "payment_status",
             "invoice_status", "activity_status"}
Ops == YagnaOps \cup {"get_config"}
Addresses == {"0x0a", "0x0b"}

\* the Debug rendering of a Command: its program and its arguments
CmdLine(c) == [program |-> c.program, args |-> c.args]

\* YaCommand::yagna and YaCommand::ya_provider, as Command values
YagnaCommand == [program |-> CmdProgram("yagna"), env |-> {}, args |-> <<>>,
                 stderr |-> "default"]
YaProviderCommand ==
    [program |-> CmdProgram("ya-provider"),
     env |-> IF plugins = "present" THEN {"EXE_UNIT_PATH"} ELSE {},
     args |-> <<>>, stderr |-> "default"]

\* Command::args
Args(c, more) == [c EXCEPT !.args = c.args \o more]

\* --driver <platform>: the platform identifier passed for the driver
PaymentStatusArgs_Platform(address, network, platform) ==
    <<"payment", "status", "--account", address,
      "--network", NetStr(network), "--driver", platform.platform>>

\* the arguments payment_status appends before run_json
PaymentStatusArgs(address, network, platform) ==
    <<"payment", "status", "--account", address,
      "--network", NetStr(network), "--driver", platform.driver>>

\* the arguments of the other operations, "--json" of run_json included
OpArgs(o) ==
    CASE o = "default_id" -> <<"id", "show", "--json">>
      [] o = "version" -> <<"version", "show", "--json">>
      [] o = "version_raw" -> <<"--version">>
      [] o = "invoice_status" -> <<"payment", "invoice", "status", "--json">>
      [] o = "activity_status" -> <<"activity", "status", "--json">>
      [] o = "get_config" -> <<"--json", "config", "get">>

\* the type run_json decodes into
OpType(o) ==
    CASE o = "default_id" -> "Result<Id, String>"
      [] o = "version" -> "VersionInfo"
      [] o = "payment_status" -> "StatusResult"
      [] o = "invoice_status" -> "InvoiceStats"
      [] o = "activity_status" -> "ActivityStatus"
      [] o = "get_config" -> "ProviderConfig"
      [] OTHER -> "none"

InitRun ==
    /\ exe = ErrPath /\ links = <<>> /\ companions = <<>>
    /\ plugins \in {"absent", "present"}
    /\ pcNew = "done" /\ me = Root /\ iter = 0
    /\ base_path \in {None, Some(<<"opt">>)}
    /\ built = {} /\ decisions = <<>>
    /\ VerIdle
    /\ RunIdle
    /\ NumIdle

\* an operation other than payment_status is called: the Command is built up
\* to the call of output()
OpCall(o) ==
    /\ pc = "idle" /\ op = "none"
    /\ o \in Ops \ {"payment_status"}
    /\ op' = o
    /\ cmd' = IF o = "get_config"
              THEN [Args(YaProviderCommand, OpArgs(o)) EXCEPT !.stderr = "inherit"]
              ELSE [Args(YagnaCommand, OpArgs(o)) EXCEPT !.stderr = "piped"]
    /\ pc' = "spawn"
    /\ UNCHANGED <<input, child, spawned, result, lookup>>
    /\ UNCHANGED notRunVars

\* payment_status is called: the lookup may return before anything is run
PaymentStatusCall(address, network, table) ==
    /\ pc = "idle" /\ op = "none"
    /\ op' = "payment_status"
    /\ input' = [address |-> address, network |-> network, table |-> table]
    /\ LET found == Platform(DriverTable(table), network) IN
       IF found.ok
       THEN /\ cmd' = [Args(Args(YagnaCommand,
                                  PaymentStatusArgs(address, network, found.value)),
                             <<"--json">>)
                        EXCEPT !.stderr = "piped"]
            /\ pc' = "spawn"
            /\ UNCHANGED result
       ELSE /\ cmd' = Args(YagnaCommand, <<"payment", "status", "--account", address>>)
            /\ result' = found
            /\ pc' = "returned"
    /\ UNCHANGED <<child, spawned, lookup>>
    /\ UNCHANGED notRunVars

\* output() could not start the child: run propagates the io::Error with `?`,
\* get_config wraps it in a context that renders the Command
SpawnError(o, c) ==
    IF o = "get_config"
    THEN ErrOf([ErrorOf("io") EXCEPT !.cmdline = Some(CmdLine(c))])
    ELSE ErrOf(ErrorOf("io"))

\* output(): the child is started, or the start fails
Spawn ==
    /\ pc = "spawn"
    /\ \E started \in BOOLEAN :
         IF started
         THEN /\ child' = [NoChild EXCEPT !.state = "running"]
              /\ spawned' = spawned + 1
              /\ pc' = "awaiting"
              /\ UNCHANGED result
         ELSE /\ result' = SpawnError(op, cmd)
              /\ pc' = "returned"
              /\ UNCHANGED <<child, spawned>>
    /\ UNCHANGED <<op, input, cmd, lookup>>
    /\ UNCHANGED notRunVars

\* the child writes what it writes and exits
ChildExit ==
    /\ child.state = "running"
    /\ \E code \in ExitCodes, out \in Stdouts, errout \in Stderrs :
         child' = [state |-> "exited", code |-> code, out |-> out, errout |-> errout]
    /\ UNCHANGED <<op, pc, input, cmd, spawned, result, lookup>>
    /\ UNCHANGED notRunVars

\* std::process::Output as output() hands it over: an inherited stream is not
\* captured
Output(c, ch) ==
    [success |-> ch.code = 0,
     stdout |-> ch.out,
     stderr |-> IF c.stderr = "piped" THEN ch.errout ELSE <<>>]

\* YagnaCommand::run on the Output
Run(c, output) ==
    IF output.success
    THEN OkOf([ty |-> "bytes", bytes |-> output.stdout])
    ELSE ErrOf([ErrorOf("exec") EXCEPT !.cmdline = Some(CmdLine(c)),
                                        !.stdout = Some(output.stdout),
                                        !.stderr = Some(output.stderr)])

\* YagnaCommand::run_json on the Output
RunJson(ty, c, output) ==
    LET ran == Run(c, output) IN
    IF ran.ok THEN JsonDecode(ty, ran.value.bytes) ELSE ran

\* what the operation returns once output() has completed
Finish(o, c, output) ==
    CASE o = "get_config" -> JsonDecode("ProviderConfig", output.stdout)
      [] o = "version_raw" ->
            LET ran == Run(c, output) IN
            IF ran.ok THEN VersionRawDecode(ran.value.bytes) ELSE ran
      [] o = "default_id" ->
            LET got == RunJson(OpType(o), c, output) IN
            IF got.ok /\ got.value.ty = "Ok"
            THEN OkOf([ty |-> "Id", node_id |-> got.value.node_id])
            ELSE IF got.ok
            THEN ErrOf([ErrorOf("msg") EXCEPT !.msg = Some(got.value.msg)])
            ELSE got
      [] OTHER -> RunJson(OpType(o), c, output)

\* output() completes without the child having exited
ChildDone_NoWait(ch) == ch.state \in {"running", "exited"}

\* output().await completes when the child has exited
ChildDone(ch) == ch.state = "exited"

\* the operation returns
Return ==
    /\ pc = "awaiting"
    /\ ChildDone(child)
    /\ result' = Finish(op, cmd, Output(cmd, child))
    /\ pc' = "returned"
    /\ UNCHANGED <<op, input, cmd, child, spawned, lookup>>
    /\ UNCHANGED notRunVars

\* a caller resolves a network through a driver table
PlatformCall(table, network) ==
    /\ pc = "idle" /\ op = "none"
    /\ lookup' = [table |-> table, network |-> network,
                   found |-> Platform(DriverTable(table), network)]
    /\ UNCHANGED <<op, pc, input, cmd, child, spawned, result>>
    /\ UNCHANGED notRunVars

NextRun ==
    \/ \E o \in Ops : OpCall(o)
    \/ \E a \in Addresses, n \in NetworkName, t \in DriverTables : PaymentStatusCall(a, n, t)
    \/ Spawn
    \/ ChildExit
    \/ Return
    \/ \E t \in DriverTables, n \in NetworkName : PlatformCall(t, n)

SpecRun == InitRun /\ [][NextRun]_vars

\* the runtime resumes the operation once output() is ready
LiveRun == InitRun /\ [][NextRun]_vars /\ WF_vars(Return)

(***************************************************************************)
(* Typed operations: errors                                                 *)
(***************************************************************************)
\* C1: an operation whose child exited with a non-zero status returns the
\* execution error that carries the child's stderr, never a decoded value,
\* whatever the child wrote to stdout.
C1_NonZeroExitIsExecutionError ==
    (pc = "returned" /\ child.state = "exited" /\ child.code # 0) =>
        /\ ~result.ok
        /\ result.err.kind = "exec"
        /\ result.err.stderr = {child.errout}

\* C2: every failure keeps its context: a spawn failure or a non-zero exit
\* carries the command line (and both streams when the child ran), a decode
\* failure carries the text that did not decode.
C2_FailuresKeepContext ==
    (pc = "returned" /\ ~result.ok) =>
        /\ (spawned = 0 /\ result.err.kind # "lookup") =>
              result.err.cmdline = {[program |-> cmd.program, args |-> cmd.args]}
        /\ (child.state = "exited" /\ child.code # 0) =>
              /\ result.err.cmdline = {[program |-> cmd.program, args |-> cmd.args]}
              /\ result.err.stdout = {child.out}
              /\ result.err.stderr = {child.errout}
        /\ (child.state = "exited" /\ child.code = 0 /\ result.err.kind # "msg") =>
              result.err.text = {child.out}

(***************************************************************************)
(* Network/driver resolution                                                *)
(***************************************************************************)
\* the compiled-in tables, entry by entry
TableEntries ==
    {<<"zksync", "Mainnet", "zksync-mainnet-glm", "zksync", "GLM">>,
     <<"zksync", "Rinkeby", "zksync-rinkeby-tglm", "zksync", "tGLM">>,
     <<"erc20", "Mainnet", "erc20-mainnet-glm", "erc20", "GLM">>,
     <<"erc20", "Rinkeby", "erc20-rinkeby-tglm", "erc20", "tGLM">>,
     <<"erc20", "Goerli", "erc20-goerli-tglm", "erc20", "tGLM">>,
     <<"erc20", "Mumbai", "erc20-mumbai-tglm", "erc20", "tGLM">>,
     <<"erc20", "Polygon", "erc20-polygon-glm", "erc20", "GLM">>}

HasEntry(t, n) == \E e \in TableEntries : e[1] = t /\ e[2] = n
EntryOf(t, n) == CHOOSE e \in TableEntries : e[1] = t /\ e[2] = n

\* the name a network is printed with
PrintedName ==
    [n \in NetworkName |->
        CASE n = "Mainnet" -> "mainnet" [] n = "Rinkeby" -> "rinkeby"
          [] n = "Goerli" -> "goerli" [] n = "Mumbai" -> "mumbai"
          [] n = "Polygon" -> "polygon"]

\* r is the lookup error that names network n
IsLookupError(r, n) ==
    ~r.ok /\ r.err.kind = "lookup" /\ r.err.network = {PrintedName[n]}

\* C3: platform(table, network) returns exactly the triple stored under the
\* network in the queried table, and for a network the table does not hold
\* the lookup error naming the network: no default, no entry of the other table.
C3_PlatformIsKeyedLookup ==
    lookup # NotCalled =>
        IF HasEntry(lookup.table, lookup.network)
        THEN LET e == EntryOf(lookup.table, lookup.network) IN
             /\ lookup.found.ok
             /\ lookup.found.value.platform = e[3]
             /\ lookup.found.value.driver = e[4]
             /\ lookup.found.value.token = e[5]
        ELSE IsLookupError(lookup.found, lookup.network)

\* C3 witness: Goerli asked of the zksync table is the lookup error
C3_Witness ==
    /\ lookup # NotCalled
    /\ lookup.table = "zksync" /\ lookup.network = "Goerli"
    /\ ~lookup.found.ok

\* C10: payment_status fails with the lookup error naming the network, with
\* no child spawned, when the table has no entry for the network; otherwise
\* its one child is run with
\*   payment status --account <address> --network <network> --driver <d> --json
\* where <d> is the driver of the table's entry.
C10_PaymentStatusInvocation ==
    op = "payment_status" =>
        IF HasEntry(input.table, input.network)
        THEN /\ pc \in {"spawn", "awaiting", "returned"}
             /\ cmd.args = <<"payment", "status", "--account", input.address,
                              "--network", PrintedName[input.network],
                              "--driver", EntryOf(input.table, input.network)[4],
                              "--json">>
             /\ (result # NotCalled /\ ~result.ok) => result.err.kind # "lookup"
        ELSE /\ pc = "returned"
             /\ spawned = 0 /\ child.state = "none"
             /\ IsLookupError(result, input.network)

\* C10 witness: Polygon is not in the zksync table; the operation returned
\* the lookup error without a child
C10_Witness ==
    /\ op = "payment_status" /\ pc = "returned"
    /\ input.table = "zksync" /\ input.network = "Polygon"
    /\ spawned = 0 /\ ~result.ok

\* the child of a resolved payment_status ran and the operation returned
C10_WitnessRun ==
    /\ op = "payment_status" /\ pc = "returned"
    /\ input.table = "erc20" /\ input.network = "Mumbai"
    /\ spawned = 1 /\ result.ok

(***************************************************************************)
(* One child per operation, awaited                                         *)
(***************************************************************************)
C9_AtMostOneChild == spawned <= 1

C9_ReturnsAfterExit == (pc = "returned" /\ spawned = 1) => child.state = "exited"

C9_WaitsForChild ==
    (pc = "awaiting" /\ child.state = "running") => pc' = "awaiting"

\* C9: an execution of a typed operation spawns at most one child, returns
\* only after that child has exited, never returns while the child runs, and
\* returns once the child has exited.
C9_OneChildAwaited ==
    /\ []C9_AtMostOneChild
    /\ []C9_ReturnsAfterExit
    /\ [][C9_WaitsForChild]_vars
    /\ (pc = "awaiting" /\ child.state = "exited") ~> (pc = "returned")

\* C9 witness: the operation returned after its one child exited
C9_Witness == pc = "returned" /\ spawned = 1 /\ child.state = "exited" /\ result # NotCalled

(***************************************************************************)
(* u64 arithmetic.  The width is scaled down to CountBits bits so that the  *)
(* whole range is enumerated; `+` and `-` on u64 panic when the build has   *)
(* overflow checks (debug profile) and wrap when it has not (release).      *)
(***************************************************************************)
CountBits == 2
CountModulus == 2 ^ CountBits
CountMax == CountModulus - 1

Returned(v) == [panicked |-> FALSE, value |-> v]
Panicked == [panicked |-> TRUE, value |-> 0]

\* a + b on u64
AddU64(a, b) ==
    IF a + b <= CountMax THEN Returned(a + b)
    ELSE IF overflow_checks THEN Panicked
    ELSE Returned((a + b) % CountModulus)

\* a - b on u64
SubU64(a, b) ==
    IF a >= b THEN Returned(a - b)
    ELSE IF overflow_checks THEN Panicked
    ELSE Returned((a - b) % CountModulus)

(***************************************************************************)
(* ActivityStatus                                                           *)
(***************************************************************************)
Labels == {"Terminated", "New", "Running", "Ready"}
TotalLabels == {"Terminated", "Running"}

\* HashMap<String, u64> over the keys `keys`
CountMaps(keys) == UNION { [ks -> 0..CountMax] : ks \in SUBSET keys }

\* map.get(key).copied().unwrap_or_default()
GetOrDefault(map, key) == IF key \in DOMAIN map THEN map[key] ELSE 0

\* ActivityStatus::last1h_processed
Last1hProcessed(st) == Returned(GetOrDefault(st.last1h, "Terminated"))

\* the loop of in_progress over the entries not yet visited (a HashMap is
\* visited in an arbitrary order; the outcome does not depend on it)
RECURSIVE InProgressLoop(_, _, _)
InProgressLoop(map, keys, in_progress) ==
    IF keys = {} THEN Returned(in_progress)
    ELSE LET k == CHOOSE k \in keys : TRUE IN
         IF k # "Terminated" /\ k # "New"
         THEN LET next == AddU64(in_progress, map[k]) IN
              IF next.panicked THEN Panicked
              ELSE InProgressLoop(map, keys \ {k}, next.value)
         ELSE InProgressLoop(map, keys \ {k}, in_progress)

\* ActivityStatus::in_progress
InProgress(st) == InProgressLoop(st.last1h, DOMAIN st.last1h, 0)

\* ActivityStatus::total_processed
TotalProcessed(st) == Returned(GetOrDefault(st.total, "Terminated"))

InitActivity ==
    /\ overflow_checks \in BOOLEAN
    /\ astatus \in [last1h : CountMaps(Labels), total : CountMaps(TotalLabels)]
    /\ aret = NotCalled
    /\ notes = NoNotes
    /\ sret = NotCalled
    /\ LocIdle /\ VerIdle /\ RunIdle

CallLast1hProcessed ==
    /\ aret' = [call |-> "last1h_processed", ret |-> Last1hProcessed(astatus)]
    /\ UNCHANGED <<overflow_checks, astatus, notes, sret>>
    /\ UNCHANGED notNumVars

CallInProgress ==
    /\ aret' = [call |-> "in_progress", ret |-> InProgress(astatus)]
    /\ UNCHANGED <<overflow_checks, astatus, notes, sret>>
    /\ UNCHANGED notNumVars

CallTotalProcessed ==
    /\ aret' = [call |-> "total_processed", ret |-> TotalProcessed(astatus)]
    /\ UNCHANGED <<overflow_checks, astatus, notes, sret>>
    /\ UNCHANGED notNumVars

NextActivity == CallLast1hProcessed \/ CallInProgress \/ CallTotalProcessed

SpecActivity == InitActivity /\ [][NextActivity]_vars

(***************************************************************************)
(* PaymentSummary for StatusNotes                                           *)
(***************************************************************************)
MaxAmount == 2

StatValues == { StatValue(a, c) : a \in 0..MaxAmount, c \in 0..CountMax }

\* the (BigDecimal, u64) pair of a amount difference and a count difference
DiffPair(x, y) ==
    LET count == SubU64(x.agreements_count, y.agreements_count) IN
    IF count.panicked THEN Panicked
    ELSE Returned([amount |-> x.total_amount - y.total_amount, count |-> count.value])

\* StatusNotes::total_pending
TotalPending(n) == DiffPair(n.accepted, n.confirmed)

\* StatusNotes::unconfirmed
Unconfirmed(n) == DiffPair(n.requested, n.accepted)

InitSummary ==
    /\ overflow_checks \in BOOLEAN
    /\ notes \in [requested : StatValues, accepted : StatValues, confirmed : StatValues]
    /\ sret = NotCalled
    /\ astatus = [last1h |-> EmptyMap, total |-> EmptyMap]
    /\ aret = NotCalled
    /\ LocIdle /\ VerIdle /\ RunIdle

CallTotalPending ==
    /\ sret' = [call |-> "total_pending", ret |-> TotalPending(notes)]
    /\ UNCHANGED <<overflow_checks, astatus, aret, notes>>
    /\ UNCHANGED notNumVars

CallUnconfirmed ==
    /\ sret' = [call |-> "unconfirmed", ret |-> Unconfirmed(notes)]
    /\ UNCHANGED <<overflow_checks, astatus, aret, notes>>
    /\ UNCHANGED notNumVars

NextSummary == CallTotalPending \/ CallUnconfirmed

SpecSummary == InitSummary /\ [][NextSummary]_vars

\* the sum of the counts of `keys` in `map`, as a number
RECURSIVE SumOver(_, _)
SumOver(map, keys) ==
    IF keys = {} THEN 0
    ELSE LET k == CHOOSE k \in keys : TRUE IN map[k] + SumOver(map, keys \ {k})

Count(map, key) == IF key \in DOMAIN map THEN map[key] ELSE 0

\* C7: last1h_processed() is last1h["Terminated"] (0 if absent), in_progress()
\* is the sum of the last1h counts of every label but "Terminated" and "New",
\* total_processed() is total["Terminated"] (0 if absent); the first two are
\* decided by last1h alone and the last by total alone.
C7_DerivedCounters ==
    aret # NotCalled =>
        /\ ~aret.ret.panicked
        /\ aret.call = "last1h_processed" =>
              aret.ret.value = Count(astatus.last1h, "Terminated")
        /\ aret.call = "in_progress" =>
              aret.ret.value =
                  SumOver(astatus.last1h, DOMAIN astatus.last1h \ {"Terminated", "New"})
        /\ aret.call = "total_processed" =>
              aret.ret.value = Count(astatus.total, "Terminated")

\* C8: for every StatusNotes total_pending() yields the pair of
\* accepted - confirmed (amount, count) and unconfirmed() the pair of
\* requested - accepted (amount, count).
C8_SummaryPairs ==
    sret # NotCalled =>
        /\ ~sret.ret.panicked
        /\ sret.call = "total_pending" =>
              /\ sret.ret.value.amount =
                    notes.accepted.total_amount - notes.confirmed.total_amount
              /\ sret.ret.value.count =
                    notes.accepted.agreements_count - notes.confirmed.agreements_count
        /\ sret.call = "unconfirmed" =>
              /\ sret.ret.value.amount =
                    notes.requested.total_amount - notes.accepted.total_amount
              /\ sret.ret.value.count =
                    notes.requested.agreements_count - notes.accepted.agreements_count

====
